---- MODULE Spec2Model ----
(***************************************************************************)
(* Model of the game-catalog API (src/src/app): the record store (Event    *)
(* and GameData tables), the CSV upload/import handlers that append to it, *)
(* and the similarity-search pipeline of get_similar_games.                *)
(*                                                                         *)
(* Representation.                                                         *)
(*  - A nullable column is an option: <<>> is NULL/None, <<v>> a value.    *)
(*  - A text is a sequence of lexemes; the lexeme " " is a blank, every    *)
(*    other lexeme is a run of word characters.                            *)
(*  - A name or a query is a sequence of one-character strings.            *)
(*  - A similarity score is the exact rational [num, den], in lowest       *)
(*    terms, of the SQUARED cosine: cosines of TF-IDF vectors are          *)
(*    non-negative, so squaring keeps order, equality, 0 and 1.            *)
(*  - idf weights are fixed-point numbers with IdfScale units per 1.0.     *)
(***************************************************************************)
EXTENDS Integers, Sequences, FiniteSets, TLC

VARIABLES env, started, events, uploads, games, request, resp, last, inflight,
          traversal

vars ==
    <<env, started, events, uploads, games, request, resp, last, inflight,
      traversal>>

\* ------------------------------------------------------------------ bounds

\* most GameData rows the store holds in the model
MaxGames == 13
\* most Event rows the store holds in the model
MaxEvents == 2
\* the number of records of a corpus of SpecCorpus
CorpusLen == 2
\* bits of the significand of a floating-point number of the model (a double
\* has 53)
Precision == 10

\* the requests of one traversal of GET /query
MaxRequests == 16

\* ----------------------------------------------------------------- options

None == <<>>

Some(v) == <<v>>

IsNull(o) == o = <<>>

Val(o) == o[1]

Min(a, b) == IF a <= b THEN a ELSE b

Max(a, b) == IF a >= b THEN a ELSE b

RECURSIVE Gcd(_, _)
Gcd(a, b) == IF b = 0 THEN a ELSE Gcd(b, a % b)

\* f itself, held as a table of its entries: a function constructor is
\* otherwise evaluated again at every application
Eager(f) == f @@ <<>>

\* ------------------------------------------------- Feature Composer (4.1)

\* Series.fillna(""): a NULL text becomes the empty string
fillna(o) == IF IsNull(o) THEN <<>> ELSE Val(o)

\* mutant of combined_features: tags before genres
combined_features_TagsFirst(g) ==
    fillna(g.about_game) \o <<" ">> \o fillna(g.categories) \o <<" ">>
        \o fillna(g.tags) \o <<" ">> \o fillna(g.genres)

\* mutant of combined_features: the price is part of the text
combined_features_WithPrice(g) ==
    fillna(g.about_game) \o <<" ">> \o fillna(g.categories) \o <<" ">>
        \o fillna(g.genres) \o <<" ">> \o fillna(g.tags) \o <<" ">>
        \o (IF IsNull(g.price) THEN <<"free">> ELSE <<"priced">>)

\* df["combined_features"] of one row
combined_features(g) ==
    fillna(g.about_game) \o <<" ">> \o fillna(g.categories) \o <<" ">>
        \o fillna(g.genres) \o <<" ">> \o fillna(g.tags)

\* mutant of load_game_data: the games imported when the application started
\* (event_id = 0) are kept as the corpus whenever there are any
load_game_data_AtStartup(table) ==
    LET AtStartup(g) == g.event_id = 0
        kept == IF SelectSeq(table, AtStartup) = <<>> THEN table
                ELSE SelectSeq(table, AtStartup)
    IN IF Len(kept) = 0
       THEN [error |-> "KeyError", df |-> <<>>]
       ELSE [error |-> "none",
             df |-> Eager([i \in 1..Len(kept) |->
                       [app_id |-> kept[i].app_id,
                        name |-> kept[i].name,
                        release_date |-> kept[i].release_date,
                        price |-> kept[i].price,
                        about_game |-> kept[i].about_game,
                        categories |-> kept[i].categories,
                        genres |-> kept[i].genres,
                        tags |-> kept[i].tags,
                        combined_features |-> combined_features(kept[i])]])]

\* load_game_data: one DataFrame row per GameData row, in query order.
\* An empty table gives a DataFrame without columns, and df["about_game"]
\* raises KeyError.
load_game_data(table) ==
    IF Len(table) = 0
    THEN [error |-> "KeyError", df |-> <<>>]
    ELSE [error |-> "none",
          df |-> Eager([i \in 1..Len(table) |->
                    [app_id |-> table[i].app_id,
                     name |-> table[i].name,
                     release_date |-> table[i].release_date,
                     price |-> table[i].price,
                     about_game |-> table[i].about_game,
                     categories |-> table[i].categories,
                     genres |-> table[i].genres,
                     tags |-> table[i].tags,
                     combined_features |-> combined_features(table[i])]])]

\* ------------------------------------------------------- Vectorizer (4.2)

\* str.lower() on the lexemes of the model
Lower(w) ==
    CASE w = "Puzzle" -> "puzzle"
      [] w = "Indie" -> "indie"
      [] w = "Chess" -> "chess"
      [] w = "The" -> "the"
      [] OTHER -> w

\* lexemes of a single word character: token_pattern (?u)\b\w\w+\b drops them
OneChar == {"a", "2"}

\* the members of sklearn's ENGLISH_STOP_WORDS among the lexemes of the model
StopWords == {"the", "and", "of"}

\* build_analyzer(): lower-case, tokenize, drop stop words
analyze(text) ==
    LET lowered == [i \in 1..Len(text) |-> Lower(text[i])]
        IsToken(w) == w # " " /\ w \notin OneChar
        Kept(w) == IsToken(w) /\ w \notin StopWords
    IN SelectSeq(lowered, Kept)

\* vocabulary_ learnt by fit: the terms of the corpus
vocabulary(toks) ==
    UNION {{toks[i][k] : k \in 1..Len(toks[i])} : i \in 1..Len(toks)}

\* fixed point: units per 1.0 of an idf weight
IdfScale == 10

\* round(IdfScale * ln(k)) for k = 1..40
LnTable ==
    <<0, 7, 11, 14, 16, 18, 19, 21, 22, 23,
      24, 25, 26, 26, 27, 28, 28, 29, 29, 30,
      30, 31, 31, 32, 32, 33, 33, 33, 34, 34,
      34, 35, 35, 35, 36, 36, 36, 36, 37, 37>>

\* smooth idf: ln((1 + n) / (1 + df)) + 1
idf(n, df) == LnTable[1 + n] - LnTable[1 + df] + IdfScale

\* raw term count of term t in the token list
tf(tokens, t) == Cardinality({k \in 1..Len(tokens) : tokens[k] = t})

\* TfidfVectorizer(stop_words="english").fit_transform(docs): one weight row
\* per document.  An empty vocabulary raises ValueError.  The rows are not
\* L2-normalised here: cosine_similarity normalises them, and the cosine does
\* not change when a row is scaled by a positive number.
fit_transform(docs) ==
    LET n == Len(docs)
        toks == Eager([i \in 1..n |-> analyze(docs[i])])
        vocab == vocabulary(toks)
        counts == Eager([i \in 1..n |-> Eager([t \in vocab |-> tf(toks[i], t)])])
        df == Eager([t \in vocab |-> Cardinality({i \in 1..n : counts[i][t] > 0})])
        weight == Eager([t \in vocab |-> idf(n, df[t])])
    IN IF vocab = {}
       THEN [error |-> "ValueError", matrix |-> <<>>]
       ELSE [error |-> "none",
             matrix |-> Eager([i \in 1..n |->
                           Eager([t \in vocab |-> counts[i][t] * weight[t]])])]

\* ------------------------------------------------ Similarity Engine (4.3)

RECURSIVE SumOver(_, _)
SumOver(f, S) ==
    IF S = {} THEN 0
    ELSE LET t == CHOOSE x \in S : TRUE IN f[t] + SumOver(f, S \ {t})

\* the product of two sparse rows: the terms both rows weigh
dot(u, v) ==
    LET common == {t \in DOMAIN u : u[t] # 0 /\ v[t] # 0}
    IN SumOver([t \in common |-> u[t] * v[t]], common)

\* a score in lowest terms
Frac(num, den) ==
    LET g == Gcd(num, den) IN [num |-> num \div g, den |-> den \div g]

Zero == [num |-> 0, den |-> 1]

One == [num |-> 1, den |-> 1]

\* a / b < c / d for a, c >= 0 and b, d > 0, without forming a * d
RECURSIVE FracLess(_, _, _, _)
FracLess(a, b, c, d) ==
    LET q1 == a \div b
        q2 == c \div d
        r1 == a % b
        r2 == c % d
    IN IF q1 # q2 THEN q1 < q2
       ELSE IF r2 = 0 THEN FALSE
       ELSE IF r1 = 0 THEN TRUE
       ELSE FracLess(d, r2, b, r1)

Less(x, y) == FracLess(x.num, x.den, y.num, y.den)

\* the squared cosine of two rows with inner product d and squared norms nu
\* and nv; sklearn's normalize leaves a zero row zero, so every product with
\* it is 0, the diagonal entry included
cosine(d, nu, nv) ==
    IF nu = 0 \/ nv = 0 THEN Zero ELSE Frac(d * d, nu * nv)

\* cosine_similarity(tfidf_matrix): the rows are normalised once, then every
\* pair of rows is multiplied
cosine_similarity(m) ==
    LET norms == Eager([i \in 1..Len(m) |-> dot(m[i], m[i])])
    IN Eager([i \in 1..Len(m) |->
          Eager([j \in 1..Len(m) |->
                    cosine(dot(m[i], m[j]), norms[i], norms[j])])])

\* ------------------------------------------- the scores as floating point

RECURSIVE Pow2(_)
Pow2(k) == IF k = 0 THEN 1 ELSE 2 * Pow2(k - 1)

RECURSIVE BitLen(_)
BitLen(n) == IF n = 0 THEN 0 ELSE 1 + BitLen(n \div 2)

\* a non-negative binary floating-point number m * 2^e: m = 0, or m has
\* exactly Precision bits
FlZero == [m |-> 0, e |-> 0]

\* n * 2^e rounded to Precision bits, to nearest, ties to even
fl_round(n, e) ==
    IF n = 0 THEN FlZero
    ELSE LET k == BitLen(n) - Precision
         IN IF k <= 0 THEN [m |-> n * Pow2(-k), e |-> e + k]
            ELSE LET q == n \div Pow2(k)
                     r == n % Pow2(k)
                     half == Pow2(k - 1)
                     q1 == IF r > half \/ (r = half /\ q % 2 = 1) THEN q + 1 ELSE q
                 IN IF q1 = Pow2(Precision)
                    THEN [m |-> Pow2(Precision - 1), e |-> e + k + 1]
                    ELSE [m |-> q1, e |-> e + k]

FlOne == fl_round(1, 0)

fl_mul(a, b) ==
    IF a.m = 0 \/ b.m = 0 THEN FlZero ELSE fl_round(a.m * b.m, a.e + b.e)

\* a + b; a summand below a quarter of the last place of the other is lost
fl_add(a, b) ==
    IF a.m = 0 THEN b
    ELSE IF b.m = 0 THEN a
    ELSE LET hi == IF a.e >= b.e THEN a ELSE b
             lo == IF a.e >= b.e THEN b ELSE a
             d == hi.e - lo.e
         IN IF d > Precision + 1 THEN hi
            ELSE fl_round(hi.m * Pow2(d) + lo.m, lo.e)

\* a / b for b # 0: the quotient to Precision + 2 bits and one more bit that
\* is set when the division leaves a remainder
fl_div(a, b) ==
    IF a.m = 0 THEN FlZero
    ELSE LET n == a.m * Pow2(Precision + 2)
             sticky == IF n % b.m = 0 THEN 0 ELSE 1
         IN fl_round(2 * (n \div b.m) + sticky, a.e - b.e - (Precision + 2) - 1)

\* floor of the square root of n, from an estimate x above it
RECURSIVE Isqrt(_, _)
Isqrt(n, x) ==
    LET y == (x + n \div x) \div 2
    IN IF y >= x THEN x ELSE Isqrt(n, y)

fl_sqrt(a) ==
    IF a.m = 0 THEN FlZero
    ELSE LET s == IF (a.e - (Precision + 2)) % 2 = 0
                  THEN Precision + 2 ELSE Precision + 3
             n == a.m * Pow2(s)
             r == Isqrt(n, Pow2(Precision + 2))
             sticky == IF r * r = n THEN 0 ELSE 1
         IN fl_round(2 * r + sticky, (a.e - s) \div 2 - 1)

\* a < b
fl_less(a, b) ==
    IF b.m = 0 THEN FALSE
    ELSE IF a.m = 0 THEN TRUE
    ELSE a.e < b.e \/ (a.e = b.e /\ a.m < b.m)

\* the sum of the products of two rows, column after column
RECURSIVE fl_dot(_, _)
fl_dot(u, v) ==
    IF u = <<>> THEN FlZero
    ELSE fl_add(fl_dot(SubSeq(u, 1, Len(u) - 1), SubSeq(v, 1, Len(v) - 1)),
                fl_mul(u[Len(u)], v[Len(v)]))

\* sklearn.preprocessing.normalize(norm="l2") of one row: a zero row is left
\* as it is
fl_normalize(row) ==
    LET norm == fl_sqrt(fl_dot(row, row))
    IN IF norm.m = 0 THEN row
       ELSE Eager([c \in 1..Len(row) |-> fl_div(row[c], norm)])

\* the terms of the model in the order of vocabulary_ (sorted)
feature_names ==
    <<"board", "chess", "indie", "platformer", "puzzle", "scifi", "sequel",
      "single">>

\* cosine_similarity(tfidf_matrix) in floating point: the rows of
\* TfidfVectorizer are normalised (norm="l2"), cosine_similarity normalises
\* them once more and multiplies every pair of rows
cosine_similarity_fl(m) ==
    LET InRow(t) == t \in DOMAIN m[1]
        columns == SelectSeq(feature_names, InRow)
        rows == Eager([i \in 1..Len(m) |->
                    fl_normalize(fl_normalize(
                        Eager([c \in 1..Len(columns) |->
                                  fl_round(m[i][columns[c]], 0)])))])
    IN Eager([i \in 1..Len(m) |->
                Eager([j \in 1..Len(m) |-> fl_dot(rows[i], rows[j])])])

\* ---------------------------------------------------- Fuzzy Matcher (4.4)

\* str.lower() on one character
LowerChar(c) ==
    CASE c = "P" -> "p"
      [] c = "G" -> "g"
      [] c = "O" -> "o"
      [] OTHER -> c

\* the characters of the model that are neither letters nor digits
NonAlnum == {" ", "!", "?"}

RECURSIVE lstrip(_)
lstrip(s) == IF s # <<>> /\ Head(s) = " " THEN lstrip(Tail(s)) ELSE s

RECURSIVE rstrip(_)
rstrip(s) ==
    IF s # <<>> /\ s[Len(s)] = " " THEN rstrip(SubSeq(s, 1, Len(s) - 1)) ELSE s

\* fuzzywuzzy utils.full_process: non-alphanumerics to blanks, lower-case, strip
full_process(s) ==
    rstrip(lstrip(Eager([i \in 1..Len(s) |->
        IF s[i] \in NonAlnum THEN " " ELSE LowerChar(s[i])])))

\* one row of the longest-common-subsequence table: row[j + 1] is the length
\* for the characters of s read so far, c the last of them, and the first j
\* characters of t; prev is the row before c was read
RECURSIVE LcsRow(_, _, _, _)
LcsRow(prev, c, t, row) ==
    LET j == Len(row)
    IN IF j > Len(t) THEN row
       ELSE LcsRow(prev, c, t,
                   Append(row, IF c = t[j] THEN prev[j] + 1
                               ELSE Max(prev[j + 1], row[j])))

RECURSIVE LcsFrom(_, _, _)
LcsFrom(prev, s, t) ==
    IF s = <<>> THEN prev[Len(t) + 1]
    ELSE LcsFrom(LcsRow(prev, Head(s), t, <<0>>), Tail(s), t)

\* length of the longest common subsequence
Lcs(s, t) == LcsFrom(Eager([j \in 1..(Len(t) + 1) |-> 0]), s, t)

\* utils.intr(p / q): int(round(.)), halves to the even neighbour
RoundDiv(p, q) ==
    LET f == p \div q
        r == p % q
    IN IF 2 * r > q THEN f + 1
       ELSE IF 2 * r = q THEN f + (f % 2)
       ELSE f

\* fuzz.ratio: 100 * 2 * matches / (len(s) + len(t))
ratio(s, t) ==
    IF Len(s) + Len(t) = 0 THEN 0 ELSE RoundDiv(200 * Lcs(s, t), Len(s) + Len(t))

\* fuzz.partial_ratio: the best ratio of the shorter string against a window
\* of its own length in the longer one
partial_ratio(s, t) ==
    LET shorter == IF Len(s) <= Len(t) THEN s ELSE t
        longer == IF Len(s) <= Len(t) THEN t ELSE s
        k == Len(shorter)
        scores == {ratio(shorter, SubSeq(longer, o + 1, o + k)) :
                     o \in 0..(Len(longer) - k)}
    IN CHOOSE m \in scores : \A x \in scores : x <= m

\* fuzz.WRatio on processed strings.  The names and queries of the model are
\* single tokens, for which token_sort_ratio and token_set_ratio equal ratio,
\* so their 0.95-scaled terms never exceed the base ratio.
WRatio(p1, p2) ==
    IF p1 = <<>> \/ p2 = <<>> THEN 0
    ELSE LET base == ratio(p1, p2)
             lmax == Max(Len(p1), Len(p2))
             lmin == Min(Len(p1), Len(p2))
             try_partial == 2 * lmax >= 3 * lmin
             partial_scale == IF lmax > 8 * lmin THEN 6 ELSE 9
         IN IF try_partial
            THEN Max(base, RoundDiv(partial_ratio(p1, p2) * partial_scale, 10))
            ELSE base

\* the score extractOne gives a choice
Score(query, choice) == WRatio(full_process(query), full_process(choice))

\* extractOne's default score_cutoff
score_cutoff == 0

\* process.extractWithoutOrder: the (choice, score) pairs that reach the cutoff
extractWithoutOrder(query, choices, cutoff) ==
    LET pairs == [i \in 1..Len(choices) |->
                    [choice |-> choices[i], score |-> Score(query, choices[i])]]
        Reaches(p) == p.score >= cutoff
    IN SelectSeq(pairs, Reaches)

\* mutant of MaxFirst: a later pair of the same score replaces the best
RECURSIVE MaxFirst_Last(_, _)
MaxFirst_Last(best, rest) ==
    IF rest = <<>> THEN best
    ELSE IF Head(rest).score >= best.score THEN MaxFirst_Last(Head(rest), Tail(rest))
    ELSE MaxFirst_Last(best, Tail(rest))

\* max(best_list, key=score): the first pair of the highest score
RECURSIVE MaxFirst(_, _)
MaxFirst(best, rest) ==
    IF rest = <<>> THEN best
    ELSE IF Head(rest).score > best.score THEN MaxFirst(Head(rest), Tail(rest))
    ELSE MaxFirst(best, Tail(rest))

\* mutant of extractOne: a minimum score of 60
extractOne_Cutoff(query, choices) ==
    LET best_list == extractWithoutOrder(query, choices, 60)
    IN IF best_list = <<>> THEN None
       ELSE Some(MaxFirst(Head(best_list), Tail(best_list)))

\* process.extractOne: None when no pair is left
extractOne(query, choices) ==
    LET best_list == extractWithoutOrder(query, choices, score_cutoff)
    IN IF best_list = <<>> THEN None
       ELSE Some(MaxFirst(Head(best_list), Tail(best_list)))

\* find_most_similar_game: match[0] if match else None
find_most_similar_game(input_name, names) ==
    LET match == extractOne(input_name, names)
    IN IF IsNull(match) THEN None ELSE Some(Val(match).choice)

\* ----------------------------------------------------------- Ranker (4.5)

\* the slice [1:11] keeps at most this many entries
TopN == 10

\* list(enumerate(row)): (index, score) pairs.  Corpus positions are 1-based
\* in the model: position i is Python's index i - 1.
enumerate(row) == [i \in 1..Len(row) |-> [index |-> i, score |-> row[i]]]

\* mutant of InsertDesc: x goes in front of the entries of its own score
RECURSIVE InsertDesc_TiesFirst(_, _)
InsertDesc_TiesFirst(sorted, x) ==
    IF sorted = <<>> THEN <<x>>
    ELSE IF ~Less(x.score, Head(sorted).score) THEN <<x>> \o sorted
    ELSE <<Head(sorted)>> \o InsertDesc_TiesFirst(Tail(sorted), x)

\* where a stable descending sort puts x in an already sorted list: behind
\* every entry whose score is not lower
RECURSIVE InsertDesc(_, _)
InsertDesc(sorted, x) ==
    IF sorted = <<>> THEN <<x>>
    ELSE IF Less(Head(sorted).score, x.score) THEN <<x>> \o sorted
    ELSE <<Head(sorted)>> \o InsertDesc(Tail(sorted), x)

\* sorted(pairs, key=lambda x: x[1], reverse=True): descending and stable
RECURSIVE SortFrom(_, _)
SortFrom(sorted, rest) ==
    IF rest = <<>> THEN sorted
    ELSE SortFrom(InsertDesc(sorted, Head(rest)), Tail(rest))

sorted_reverse(pairs) == SortFrom(<<>>, pairs)

\* mutant of TopSlice: the slice [0:10]
TopSlice_KeepFirst(seq) == SubSeq(seq, 1, Min(Len(seq), TopN))

\* seq[1:11]
TopSlice(seq) == SubSeq(seq, 2, Min(Len(seq), TopN + 1))

\* df.index[df["name"] == closest_match].tolist(): ascending positions
name_index(df, closest_match) ==
    {i \in 1..Len(df) : ~IsNull(closest_match) /\ df[i].name = Val(closest_match)}

\* mutant of FirstOf: .tolist()[-1]
FirstOf_Last(S) == CHOOSE i \in S : \A j \in S : i >= j

\* .tolist()[0]
FirstOf(S) == CHOOSE i \in S : \A j \in S : i <= j

\* format_date: strftime("%Y-%m-%d") of a datetime, anything else unchanged
format_date(date_value) ==
    IF date_value.type = "datetime"
    THEN [type |-> "str", ymd |-> date_value.ymd]
    ELSE date_value

\* the price column is of dtype object, holding None, when no row has a price;
\* with a price in some row it is float64 and a missing price is nan
PriceIsObject(df) == \A i \in 1..Len(df) : IsNull(df[i].price)

\* the attributes of row i in a response; a price of <<>> is float nan
game_info(df, i) ==
    [app_id |-> df[i].app_id,
     name |-> df[i].name,
     release_date |-> format_date(df[i].release_date),
     price |-> df[i].price]

NoLocals ==
    [called |-> FALSE, game_name |-> <<>>, error |-> "none", df |-> <<>>,
     cosine_sim |-> <<>>, closest |-> None, idx |-> 0, sim_scores |-> <<>>,
     game_indices |-> <<>>, closest_match |-> None, similar_games |-> <<>>]

\* mutant of Assemble: df.iloc[idx] with the position in the ranking, not
\* df.iloc[i] with the ranked index
Assemble_ByPosition(base, df, sim_scores, game_indices) ==
    IF PriceIsObject(df)
    THEN [base EXCEPT !.error = "TypeError", !.sim_scores = sim_scores,
                      !.game_indices = game_indices]
    ELSE [base EXCEPT !.sim_scores = sim_scores,
                      !.game_indices = game_indices,
                      !.closest_match = Some(game_info(df, base.idx)),
                      !.similar_games =
                          [k \in 1..Len(game_indices) |->
                              game_info(df, k)
                                  @@ [similarity_score |-> sim_scores[k].score]]]

\* similar_games_info and the returned dictionary (lines 80-99): float() of
\* an object-dtype price raises TypeError
Assemble(base, df, sim_scores, game_indices) ==
    IF PriceIsObject(df)
    THEN [base EXCEPT !.error = "TypeError", !.sim_scores = sim_scores,
                      !.game_indices = game_indices]
    ELSE [base EXCEPT !.sim_scores = sim_scores,
                      !.game_indices = game_indices,
                      !.closest_match = Some(game_info(df, base.idx)),
                      !.similar_games =
                          [k \in 1..Len(game_indices) |->
                              game_info(df, game_indices[k])
                                  @@ [similarity_score |-> sim_scores[k].score]]]

\* sim_scores and game_indices (lines 75-78)
Rank(base, df, sim_scores) ==
    Assemble(base, df, sim_scores,
             [k \in 1..Len(sim_scores) |-> sim_scores[k].index])

\* idx = df.index[df["name"] == closest_match].tolist()[0] (line 74): an
\* empty list raises IndexError
Locate(base, df, cosine_sim, hits) ==
    IF hits = {}
    THEN [base EXCEPT !.error = "IndexError"]
    ELSE Rank([base EXCEPT !.idx = FirstOf(hits)], df,
              TopSlice(sorted_reverse(enumerate(cosine_sim[FirstOf(hits)]))))

\* closest_match = find_most_similar_game(...) (line 73)
Match(base, df, cosine_sim, closest) ==
    Locate([base EXCEPT !.cosine_sim = cosine_sim, !.closest = closest],
           df, cosine_sim, name_index(df, closest))

\* mutant of Vectorize: the candidate names are read from the store again
Vectorize_Reload(base, df, fitted) ==
    IF fitted.error # "none"
    THEN [base EXCEPT !.error = fitted.error]
    ELSE Match(base, df, cosine_similarity(fitted.matrix),
               find_most_similar_game(base.game_name,
                                      Eager([i \in 1..Len(games) |-> games[i].name])))

\* tfidf.fit_transform and cosine_similarity (lines 69-71)
Vectorize(base, df, fitted) ==
    IF fitted.error # "none"
    THEN [base EXCEPT !.error = fitted.error]
    ELSE Match(base, df, cosine_similarity(fitted.matrix),
               find_most_similar_game(base.game_name,
                                      Eager([i \in 1..Len(df) |-> df[i].name])))

\* df = load_game_data() (line 67)
Loaded(base, loaded) ==
    IF loaded.error # "none"
    THEN [base EXCEPT !.error = loaded.error]
    ELSE Vectorize([base EXCEPT !.df = loaded.df], loaded.df,
                   fit_transform(Eager([i \in 1..Len(loaded.df) |->
                                           loaded.df[i].combined_features])))

\* get_similar_games: the locals of the call, with the exception that ended
\* it (error) or "none", and the returned dictionary
get_similar_games(table, game_name) ==
    Loaded([NoLocals EXCEPT !.called = TRUE, !.game_name = game_name],
           load_game_data(table))

\* ------------------------------------------------------------ record store

\* %b: the abbreviated month names of the model, with their numbers
MonthNum == [m \in {"Oct"} |-> "10"]

\* %d followed by the comma of the format, with the day strftime prints
DayOf == [d \in {"10,", "1,"} |-> IF d = "10," THEN "10" ELSE "01"]

\* %Y
Years == {"2007", "1970"}

\* tok[:3]
Prefix3(tok) == IF tok = "October" THEN "Oct" ELSE tok

\* f"{day}," : the day part with the format's comma appended
WithComma(tok) ==
    CASE tok = "10" -> "10,"
      [] tok = "1" -> "1,"
      [] OTHER -> "?"

\* datetime.strptime(s, "%b %d, %Y") on the whitespace-separated parts of s
strptime_ok(parts) ==
    /\ Len(parts) = 3
    /\ parts[1] \in DOMAIN MonthNum
    /\ parts[2] \in DOMAIN DayOf
    /\ parts[3] \in Years

strftime(parts) == <<parts[3], MonthNum[parts[1]], DayOf[parts[2]]>>

Epoch == <<"1970", "01", "01">>

\* parse_date: the date string is an option of its whitespace-separated
\* parts; strptime(None) raises TypeError, which parse_date does not catch
parse_date(date_str) ==
    IF IsNull(date_str) THEN [error |-> "TypeError", value |-> Epoch]
    ELSE LET parts == Val(date_str)
             month == IF Len(parts) > 0 THEN Prefix3(parts[1]) ELSE "Jan"
             day == IF Len(parts) > 1 THEN parts[2] ELSE "1"
             year == IF Len(parts) > 2 THEN parts[3] ELSE "1970"
             again == <<month, WithComma(day), year>>
         IN [error |-> "none",
             value |-> IF strptime_ok(parts) THEN strftime(parts)
                       ELSE IF strptime_ok(again) THEN strftime(again)
                       ELSE Epoch]

\* GameData(...) of one CSV row
GameRow(row, date, event_id) ==
    [app_id |-> row.AppID,
     name |-> row.Name,
     release_date |-> [type |-> "str", ymd |-> date],
     price |-> row.Price,
     about_game |-> row.About,
     categories |-> row.Categories,
     genres |-> row.Genres,
     tags |-> row.Tags,
     event_id |-> event_id]

\* the rows of a CSV file as GameData objects, up to the first row whose date
\* makes parse_date raise
RECURSIVE BuildRows(_, _)
BuildRows(rows, event_id) ==
    IF rows = <<>> THEN [error |-> "none", objs |-> <<>>]
    ELSE LET d == parse_date(Head(rows).ReleaseDate)
             rest == BuildRows(Tail(rows), event_id)
         IN IF d.error # "none" THEN [error |-> d.error, objs |-> <<>>]
            ELSE [error |-> rest.error,
                  objs |-> <<GameRow(Head(rows), d.value, event_id)>> \o rest.objs]

\* nullable=False columns of GameData set from the file
NotNullOk(obj) == ~IsNull(obj.name) /\ ~IsNull(obj.app_id)

\* save_csv_to_db / import_sample_data: read the file, add one GameData per
\* row, commit once at the end.  A file read with another delimiter than its
\* own has a single column, and row["AppID"] raises KeyError.  Nothing of the
\* file is stored unless the commit succeeds.
save_csv_to_db(table, file, delimiter, event_id) ==
    LET built == BuildRows(file.rows, event_id)
        Unwrap(o) == [o EXCEPT !.name = Val(o.name), !.app_id = Val(o.app_id)]
    IN IF file.rows # <<>> /\ delimiter # file.delimiter
       THEN [error |-> "KeyError", table |-> table]
       ELSE IF built.error # "none"
       THEN [error |-> built.error, table |-> table]
       ELSE IF \E k \in 1..Len(built.objs) : ~NotNullOk(built.objs[k])
       THEN [error |-> "SQLAlchemyError", table |-> table]
       ELSE [error |-> "none",
             table |-> table \o [k \in 1..Len(built.objs) |-> Unwrap(built.objs[k])]]

\* Event(...) with the next autoincrement id
EventRow(table, original_url, mode, altname, filepath, encoding, delimiter) ==
    [id |-> Len(table) + 1, original_url |-> original_url, mode |-> mode,
     altname |-> altname, filepath |-> filepath, encoding |-> encoding,
     delimiter |-> delimiter]

\* ------------------------------------------------------------------ inputs

Txt(w) == Some(<<w>>)

DateOk == Some(<<"Oct", "10,", "2007">>)

Pong == <<"P", "o", "n", "g">>

RowPong ==
    [AppID |-> Some(10), Name |-> Some(Pong), ReleaseDate |-> DateOk,
     Price |-> Some(999), About |-> Some(<<"puzzle", " ", "platformer">>),
     Categories |-> Txt("single"), Genres |-> Txt("Puzzle"), Tags |-> Txt("scifi")]

RowPong2 ==
    [AppID |-> Some(20), Name |-> Some(<<"P", "o", "n", "g", "2">>),
     ReleaseDate |-> Some(<<"October", "10", "2007">>), Price |-> Some(1999),
     About |-> Some(<<"puzzle", " ", "platformer", " ", "sequel">>),
     Categories |-> Txt("single"), Genres |-> Txt("Puzzle"), Tags |-> Txt("scifi")]

RowGo ==
    [AppID |-> Some(30), Name |-> Some(<<"G", "O", "!">>),
     ReleaseDate |-> Some(<<"Oct", "2007">>), Price |-> None,
     About |-> Some(<<"The", " ", "chess">>), Categories |-> Txt("single"),
     Genres |-> Txt("board"), Tags |-> None]

\* the text of RowPong under another name
RowPing ==
    [RowPong EXCEPT !.AppID = Some(40), !.Name = Some(<<"P", "i", "n", "g">>)]

\* the name of RowPong with another text
RowPongChess ==
    [AppID |-> Some(50), Name |-> Some(Pong), ReleaseDate |-> DateOk,
     Price |-> Some(0), About |-> Txt("chess"), Categories |-> None,
     Genres |-> Txt("board"), Tags |-> Some(<<>>)]

\* no text at all, no price
RowBlank ==
    [AppID |-> Some(60), Name |-> Some(<<"Z", "z">>), ReleaseDate |-> DateOk,
     Price |-> None, About |-> None, Categories |-> None, Genres |-> None,
     Tags |-> None]

\* stop words and a one-letter word only
RowStop ==
    [AppID |-> Some(70), Name |-> Some(<<"o", "n">>), ReleaseDate |-> DateOk,
     Price |-> Some(500), About |-> Some(<<"The", " ", "a">>),
     Categories |-> None, Genres |-> Txt("of"), Tags |-> None]

\* an empty "Release date" cell
RowNoDate == [RowPong EXCEPT !.AppID = Some(80), !.ReleaseDate = None]

\* an empty "Name" cell
RowNoName == [RowGo EXCEPT !.AppID = Some(90), !.Name = None]

Csv(filename, rows) == [filename |-> filename, delimiter |-> <<",">>, rows |-> rows]

FilePong == Csv(<<"pong", "csv">>, <<RowPong>>)

FileBlank == Csv(<<"blank", "CSV">>, <<RowBlank>>)

FileGo == Csv(<<"go", "csv">>, <<RowGo>>)

FilePair == Csv(<<"pair", "csv">>, <<RowPing, RowPongChess>>)

FileStop == Csv(<<"stop", "csv">>, <<RowStop, RowBlank>>)

FileBig ==
    Csv(<<"big", "csv">>,
        <<RowPong, RowPong2, RowGo, RowPing, RowPongChess, RowBlank,
          RowStop, RowPong2, RowGo, RowPong, RowPing>>)

FileNoDate == Csv(<<"nodate", "csv">>, <<RowPong2, RowNoDate>>)

FileNoName == Csv(<<"noname", "csv">>, <<RowNoName>>)

FileTxt == Csv(<<"notes", "txt">>, <<RowPong>>)

\* the contents sample_gamedata.csv may have
SampleFiles == {Csv(<<"sample_gamedata", "csv">>, <<>>),
                Csv(<<"sample_gamedata", "csv">>, <<RowPong, RowPong2, RowGo>>)}

\* the rows sample_events.csv may have
SampleEvents ==
    {<<>>,
     <<[original_url |-> None, mode |-> "upload", altname |-> None,
        filepath |-> <<"sample">>, encoding |-> Some("utf-8"),
        delimiter |-> Some(<<",">>)]>>}

\* the name parameter of GET /similar_games
Queries ==
    {<<>>, <<"p", "o", "n", "g">>, <<"P", "i", "n", "g">>, <<"g", "o">>,
     <<"?", "?">>, <<"x">>}

\* API_SECRET_KEY = os.environ.get("API_SECRET_KEY"): None when the variable
\* is not set
API_SECRET_KEY == env.API_SECRET_KEY

Comma == Some(<<",">>)

Utf8 == Some("utf-8")

Upload(key, file, altname, encoding, delimiter) ==
    [key |-> key, file |-> file, altname |-> altname, encoding |-> encoding,
     delimiter |-> delimiter]

\* the POST /upload_csv requests of the model: X-API-Key header, file,
\* altname, encoding and delimiter
UploadRequests ==
    {Upload(None, FilePong, None, Utf8, Comma),
     Upload(Some("wrong"), FilePong, None, Utf8, Comma),
     Upload(Some("key"), FilePong, None, None, None),
     Upload(Some("key"), FilePong, None, Some("utf-16"), Comma),
     Upload(Some("key"), FilePong, None, Utf8, None),
     Upload(Some("key"), FilePong, None, Utf8, Some(<<";", ";">>)),
     Upload(Some("key"), FileTxt, None, Utf8, Comma),
     Upload(Some("key"), FilePong, None, Utf8, Comma),
     Upload(Some("key"), FileBlank, None, Some("ascii"), Comma),
     Upload(Some("key"), FileGo, None, Utf8, Comma),
     Upload(Some("key"), FilePair, Some("pack"), Utf8, Comma),
     Upload(Some("key"), FileBig, None, Utf8, Comma),
     Upload(Some("key"), FileNoDate, None, Utf8, Comma),
     Upload(Some("key"), FileNoName, None, Utf8, Comma),
     Upload(Some("key"), FilePong, None, Utf8, Some(<<";">>))}

Url(scheme, path, ext) == Some([scheme |-> scheme, path |-> path, ext |-> ext])

UrlOk == Url("https://", <<"host", "/", "stop">>, ".csv")

Import(key, url, altname, encoding, delimiter) ==
    [key |-> key, url |-> url, altname |-> altname, encoding |-> encoding,
     delimiter |-> delimiter]

\* the POST /import_csv requests of the model; url None: no file_url
ImportRequests ==
    {Import(None, UrlOk, None, Utf8, Comma),
     Import(Some("key"), None, None, Utf8, Comma),
     Import(Some("key"), Url("ftp://", <<"host", "/", "stop">>, ".csv"), None, Utf8, Comma),
     Import(Some("key"), Url("http://", <<"host", "/", "my", " ", "stop">>, ".csv"), None, Utf8, Comma),
     Import(Some("key"), Url("http://", <<"host", "/", "stop">>, ".txt"), None, Utf8, Comma),
     Import(Some("key"), UrlOk, None, Some("utf-16"), Comma),
     Import(Some("key"), UrlOk, None, Utf8, None),
     Import(Some("key"), UrlOk, None, Utf8, Comma)}

\* what requests.get may end with: a response or a RequestException
Fetches ==
    {[error |-> "none", status_code |-> 200, file |-> FileStop],
     [error |-> "none", status_code |-> 404, file |-> Csv(<<>>, <<>>)],
     [error |-> "RequestException", status_code |-> 0, file |-> Csv(<<>>, <<>>)]}

\* ------------------------------------------------------------------- views

valid_encodings == {"utf-8", "ascii", "iso-8859-1"}

ALLOWED_EXTENSIONS == {"csv"}

\* str.lower() on a file extension
LowerExt(e) == IF e = "CSV" THEN "csv" ELSE e

\* allowed_file: a filename is its parts around the dots
allowed_file(filename) ==
    Len(filename) > 1 /\ LowerExt(filename[Len(filename)]) \in ALLOWED_EXTENSIONS

\* is_valid_csv_url: http or https, one or more characters of the classes of
\* the pattern (a blank is in none of them), and .csv at the end
is_valid_csv_url(url) ==
    /\ url.scheme \in {"http://", "https://"}
    /\ url.path # <<>>
    /\ \A k \in 1..Len(url.path) : url.path[k] # " "
    /\ url.ext = ".csv"

\* mutant of check_secret_key: without a configured key every request is let
\* through
check_secret_key_Unset(key) ==
    IsNull(API_SECRET_KEY) \/ ~(IsNull(key) \/ key # API_SECRET_KEY)

\* check_secret_key: TRUE when the request is let through
check_secret_key(key) == ~(IsNull(key) \/ key # API_SECRET_KEY)

\* limiter.limit(...): what the check of the route's limit may end with for
\* one request, TRUE when the window of the remote address is used up and
\* the request is answered 429.  The hit counts and the clock of the limiter
\* are not part of the state: the requests that use up a window may all be
\* requests that change nothing else (a missing name, a wrong key).
limiter_limit == BOOLEAN

\* the request a handler reads: the name parameter and the X-API-Key header
Request(name, key) == [name |-> name, key |-> key]

Response(endpoint, status, error) ==
    [endpoint |-> endpoint, status |-> status, error |-> error,
     closest_match |-> None, similar_games |-> <<>>]

\* the body of both CSV handlers once the parameters are accepted: commit the
\* Event, then import the file; an exception of the import is answered 500
\* and leaves the Event behind
StoreFile(endpoint, event, file, delimiter) ==
    LET saved == save_csv_to_db(games, file, delimiter, event.id)
    IN /\ events' = Append(events, event)
       /\ uploads' = Append(uploads, event.filepath)
       /\ games' = saved.table
       /\ resp' = IF saved.error = "none" THEN Response(endpoint, 201, "none")
                  ELSE Response(endpoint, 500, saved.error)

Refuse(endpoint, status, error) ==
    /\ resp' = Response(endpoint, status, error)
    /\ UNCHANGED <<events, uploads, games>>

\* validate_csv_params: 0 when valid, else the status of the refusal
\* (len(None) raises TypeError outside the handler's try block)
validate_csv_params(encoding, delimiter) ==
    IF IsNull(encoding) \/ Val(encoding) \notin valid_encodings THEN 400
    ELSE IF IsNull(delimiter) THEN 500
    ELSE IF Len(Val(delimiter)) # 1 THEN 400
    ELSE 0

\* import_sample_events: one Event per row of sample_events.csv
import_sample_events(table, rows) ==
    table \o [k \in 1..Len(rows) |->
                EventRow(SubSeq(rows, 1, k - 1), rows[k].original_url,
                         rows[k].mode, rows[k].altname, rows[k].filepath,
                         rows[k].encoding, rows[k].delimiter)]

\* import_sample_data: the rows of sample_gamedata.csv, read with the default
\* delimiter, each with event_id = 0
import_sample_data(table, file) == save_csv_to_db(table, file, <<",">>, 0).table

\* create_app: with an empty GameData table, import the sample events and
\* the sample games (event_id = 0)
CreateApp ==
    /\ ~started
    /\ \E se \in SampleEvents, sf \in SampleFiles :
          /\ events' = import_sample_events(events, se)
          /\ games' = import_sample_data(games, sf)
    /\ started' = TRUE
    /\ UNCHANGED <<env, uploads, request, resp, last, inflight, traversal>>

\* POST /upload_csv
UploadCSV ==
    /\ started
    /\ Len(events) < MaxEvents
    /\ \E req \in UploadRequests, over \in limiter_limit :
          /\ Len(games) + Len(req.file.rows) <= MaxGames
          /\ request' = Request(<<>>, req.key)
          /\ LET key == req.key
                 file == req.file
                 altname == req.altname
                 encoding == req.encoding
                 delimiter == req.delimiter
                 bad == validate_csv_params(encoding, delimiter)
                 filepath == IF IsNull(altname) THEN file.filename
                             ELSE <<Val(altname), "csv">>
                 event == EventRow(events, None, "upload", altname, filepath,
                                   encoding, delimiter)
             IN IF over
                THEN Refuse("upload_csv", 429, "Too Many Requests")
                ELSE IF ~check_secret_key(key)
                THEN Refuse("upload_csv", 401, "Invalid or missing API Key")
                ELSE IF bad = 500 THEN Refuse("upload_csv", 500, "TypeError")
                ELSE IF bad # 0
                THEN Refuse("upload_csv", 400, "Invalid encoding or delimiter")
                ELSE IF ~allowed_file(file.filename)
                THEN Refuse("upload_csv", 400, "Invalid file type")
                ELSE StoreFile("upload_csv", event, file, Val(delimiter))
    /\ last' = NoLocals
    /\ UNCHANGED <<env, started, inflight, traversal>>

\* POST /import_csv
ImportCSV ==
    /\ started
    /\ Len(events) < MaxEvents
    /\ \E req \in ImportRequests, got \in Fetches, over \in limiter_limit :
          /\ Len(games) + Len(got.file.rows) <= MaxGames
          /\ request' = Request(<<>>, req.key)
          /\ LET key == req.key
                 url == req.url
                 altname == req.altname
                 encoding == req.encoding
                 delimiter == req.delimiter
                 bad == validate_csv_params(encoding, delimiter)
                 filepath == IF IsNull(altname)
                             THEN <<Val(url).path[Len(Val(url).path)], "csv">>
                             ELSE <<Val(altname), "csv">>
                 event == EventRow(events, url, "import", altname, filepath,
                                   encoding, delimiter)
             IN IF over
                THEN Refuse("import_csv", 429, "Too Many Requests")
                ELSE IF ~check_secret_key(key)
                THEN Refuse("import_csv", 401, "Invalid or missing API Key")
                ELSE IF IsNull(url)
                THEN Refuse("import_csv", 400, "file_url is required")
                ELSE IF ~is_valid_csv_url(Val(url))
                THEN Refuse("import_csv", 400, "Invalid file URL")
                ELSE IF bad = 500 THEN Refuse("import_csv", 500, "TypeError")
                ELSE IF bad # 0
                THEN Refuse("import_csv", 400, "Invalid encoding or delimiter")
                ELSE IF got.error # "none"
                THEN Refuse("import_csv", 400, "Failed to fetch file")
                ELSE IF got.status_code # 200
                THEN Refuse("import_csv", 400, "Failed to fetch file")
                ELSE StoreFile("import_csv", event, got.file, Val(delimiter))
    /\ last' = NoLocals
    /\ UNCHANGED <<env, started, inflight, traversal>>

\* the answer to a call of get_similar_games: its dictionary with 200; the
\* handler catches nothing, so an exception is answered 500
Answer(r) ==
    IF r.error # "none"
    THEN Response("similar_games", 500, r.error)
    ELSE [Response("similar_games", 200, "none") EXCEPT
             !.closest_match = r.closest_match,
             !.similar_games = r.similar_games]

\* mutant of SimilarGames_get: get_similar_games is called whatever the name
SimilarGames_get_NoCheck(table, game_name) ==
    LET r == get_similar_games(table, game_name)
    IN [last |-> r, resp |-> Answer(r)]

\* SimilarGames.get (lines 538-542): 400 without a name, else
\* get_similar_games
SimilarGames_get(table, game_name) ==
    IF game_name # <<>>
    THEN LET r == get_similar_games(table, game_name)
         IN [last |-> r, resp |-> Answer(r)]
    ELSE [last |-> NoLocals,
          resp |-> Response("similar_games", 400, "Please provide a game name")]

\* no similarity request is between its load and its return
Idle == [active |-> FALSE, game_name |-> <<>>, loaded |-> [error |-> "none", df |-> <<>>]]

\* no client is paging through GET /query
NoTraversal ==
    [active |-> FALSE, filters |-> <<>>, limit |-> None, cursor |-> None,
     delivered |-> <<>>, requests |-> 0]

\* GET /similar_games: the limiter, then the handler
SimilarGames ==
    /\ started
    /\ ~inflight.active
    /\ \E game_name \in Queries, over \in limiter_limit :
          /\ request' = Request(game_name, None)
          /\ IF over
             THEN /\ resp' = Response("similar_games", 429, "Too Many Requests")
                  /\ last' = NoLocals
             ELSE LET out == SimilarGames_get(games, game_name)
                  IN /\ last' = out.last
                     /\ resp' = out.resp
    /\ UNCHANGED <<env, started, events, uploads, games, inflight, traversal>>

\* GET /similar_games on a thread of its own, up to df = load_game_data()
\* (line 67): a request that is refused or has no name is answered at once
SimilarGamesLoad ==
    /\ started
    /\ ~inflight.active
    /\ \E game_name \in Queries, over \in limiter_limit :
          /\ request' = Request(game_name, None)
          /\ IF over
             THEN /\ resp' = Response("similar_games", 429, "Too Many Requests")
                  /\ last' = NoLocals
                  /\ UNCHANGED inflight
             ELSE IF game_name = <<>>
             THEN /\ resp' = SimilarGames_get(games, game_name).resp
                  /\ last' = NoLocals
                  /\ UNCHANGED inflight
             ELSE /\ inflight' = [active |-> TRUE, game_name |-> game_name,
                                  loaded |-> load_game_data(games)]
                  /\ UNCHANGED <<resp, last>>
    /\ UNCHANGED <<env, started, events, uploads, games, traversal>>

\* ... and from there to its return (lines 69-99), whatever was appended to
\* the store in between
SimilarGamesReturn ==
    /\ inflight.active
    /\ LET r == Loaded([NoLocals EXCEPT !.called = TRUE,
                                        !.game_name = inflight.game_name],
                       inflight.loaded)
       IN /\ last' = r
          /\ resp' = Answer(r)
    /\ inflight' = Idle
    /\ UNCHANGED <<env, started, events, uploads, games, request, traversal>>

Init ==
    /\ env \in [API_SECRET_KEY : {None, Some("key")}]
    /\ started = FALSE
    /\ events = <<>>
    /\ uploads = <<>>
    /\ games = <<>>
    /\ request = Request(<<>>, None)
    /\ inflight = Idle
    /\ traversal = NoTraversal
    /\ resp = Response("none", 0, "none")
    /\ last = NoLocals

Next == CreateApp \/ UploadCSV \/ ImportCSV \/ SimilarGames

Spec == Init /\ [][Next]_vars

\* ------------------------------------- requests on threads of their own

\* the application as create_app leaves it with the sample games in the store
\* and a key configured
InitThreaded ==
    /\ env = [API_SECRET_KEY |-> Some("key")]
    /\ started = TRUE
    /\ events = <<>>
    /\ uploads = <<>>
    /\ games = import_sample_data(<<>>, Csv(<<"sample_gamedata", "csv">>,
                                             <<RowPong, RowPong2, RowGo>>))
    /\ request = Request(<<>>, None)
    /\ resp = Response("none", 0, "none")
    /\ last = NoLocals
    /\ inflight = Idle
    /\ traversal = NoTraversal

\* uploads and a similarity request that they may overtake between its load
\* and its return
NextThreaded == UploadCSV \/ SimilarGamesLoad \/ SimilarGamesReturn

SpecThreaded == InitThreaded /\ [][NextThreaded]_vars

\* ------------------------------------------------------------- GET /query

\* GameData.to_dict of the row with primary key i (its position in the table)
to_dict(table, i) ==
    [id |-> i,
     app_id |-> table[i].app_id,
     name |-> table[i].name,
     release_date |-> table[i].release_date,
     price |-> table[i].price,
     about_game |-> table[i].about_game,
     categories |-> table[i].categories,
     genres |-> table[i].genres,
     tags |-> table[i].tags,
     event_id |-> table[i].event_id]

\* one filter of request.args: its key and its value, a number or, as None,
\* a text that is no number
Filter(key, value) == [key |-> key, value |-> value]

\* the filters of the GET /query requests of the model
QueryFilters ==
    {<<>>,
     <<Filter("min_price", Some(500))>>,
     <<Filter("max_price", Some(999))>>,
     <<Filter("app_id", Some(10))>>,
     <<Filter("min_price", Some(0)), Filter("max_price", Some(1999))>>,
     <<Filter("min_price", None)>>,
     <<Filter("colour", Some(1))>>}

\* the limit parameter of the requests of the model; None: not given
QueryLimits == {None, Some(0), Some(1), Some(2), Some(3)}

\* the default of filters.pop("limit", 10)
DefaultLimit == 10

\* the filter condition of one key (lines 217-250): a comparison with a NULL
\* price is not true; a key GameData does not have adds no condition
Condition(f, g) ==
    CASE f.key = "min_price" -> ~IsNull(g.price) /\ Val(g.price) >= Val(f.value)
      [] f.key = "max_price" -> ~IsNull(g.price) /\ Val(g.price) <= Val(f.value)
      [] f.key = "app_id" -> g.app_id = Val(f.value)
      [] OTHER -> TRUE

\* query_data: float() or int() of a text that is no number raises
\* ValueError; else the count of the filtered rows and the rows from offset
\* cursor on, at most limit of them, in table order
query_data(table, filters, cursor, limit) ==
    LET Numeric(f) == f.key \in {"min_price", "max_price", "app_id"}
        Matches(i) == \A k \in 1..Len(filters) : Condition(filters[k], table[i])
        ids == SelectSeq([i \in 1..Len(table) |-> i], Matches)
        total == Len(ids)
        page == SubSeq(ids, cursor + 1, Min(cursor + limit, total))
    IN IF \E k \in 1..Len(filters) : Numeric(filters[k]) /\ IsNull(filters[k].value)
       THEN [error |-> "ValueError", results |-> <<>>, total |-> 0]
       ELSE [error |-> "none",
             results |-> [k \in 1..Len(page) |-> to_dict(table, page[k])],
             total |-> total]

QueryResponse(status, error, total, results, cursor) ==
    [endpoint |-> "query", status |-> status, error |-> error, total |-> total,
     results |-> results, cursor |-> cursor]

\* QueryData.get (lines 391-410)
QueryData_get(table, filters, cursor, limit) ==
    LET out == query_data(table, filters, cursor, limit)
    IN IF out.error = "ValueError"
       THEN QueryResponse(400, "ValueError", 0, <<>>, None)
       ELSE QueryResponse(200, "none", out.total, out.results,
                          IF cursor + limit < out.total THEN Some(cursor + limit)
                          ELSE None)

\* one GET /query of a client that pages through the results: the limiter,
\* then the handler; the client keeps the returned cursor and what it got
Query(filters, limit, cursor, delivered, requests) ==
    /\ \E over \in limiter_limit :
          /\ request' = [name |-> <<>>, key |-> None, filters |-> filters,
                         cursor |-> cursor, limit |-> limit]
          /\ IF over
             THEN /\ resp' = QueryResponse(429, "Too Many Requests", 0, <<>>, None)
                  /\ traversal' = [active |-> TRUE, filters |-> filters,
                                   limit |-> limit, cursor |-> Some(cursor),
                                   delivered |-> delivered, requests |-> requests]
             ELSE LET out == QueryData_get(games, filters, cursor,
                                           IF IsNull(limit) THEN DefaultLimit
                                           ELSE Val(limit))
                  IN /\ resp' = out
                     /\ traversal' =
                           [active |-> TRUE, filters |-> filters, limit |-> limit,
                            cursor |-> out.cursor,
                            delivered |-> delivered \o [k \in 1..Len(out.results) |->
                                                          out.results[k].id],
                            requests |-> requests + 1]
    /\ last' = NoLocals
    /\ UNCHANGED <<env, started, events, uploads, games, inflight>>

\* the first request of a traversal: cursor 0
QueryStart ==
    /\ started
    /\ \E filters \in QueryFilters, limit \in QueryLimits :
          Query(filters, limit, 0, <<>>, 0)

\* the next request of the traversal, with the cursor the last answer gave
QueryNext ==
    /\ traversal.active
    /\ ~IsNull(traversal.cursor)
    /\ traversal.requests < MaxRequests
    /\ Query(traversal.filters, traversal.limit, Val(traversal.cursor),
             traversal.delivered, traversal.requests)

\* the stores a traversal runs over
QueryStores ==
    {import_sample_data(<<>>, f) :
        f \in {Csv(<<"sample_gamedata", "csv">>, <<>>),
               Csv(<<"sample_gamedata", "csv">>, <<RowPong, RowPong2, RowGo>>),
               FileBig}}

\* the application after create_app, with a store that no request changes
InitQuery ==
    /\ env = [API_SECRET_KEY |-> Some("key")]
    /\ started = TRUE
    /\ events = <<>>
    /\ uploads = <<>>
    /\ games \in QueryStores
    /\ request = Request(<<>>, None)
    /\ resp = Response("none", 0, "none")
    /\ last = NoLocals
    /\ inflight = Idle
    /\ traversal = NoTraversal

NextQuery == QueryStart \/ QueryNext

SpecQuery == InitQuery /\ [][NextQuery]_vars

\* ---------------------------------------------- corpora of nullable texts

\* the names of the records of a corpus, by position
CorpusNames ==
    <<Pong, <<"P", "i", "n", "g">>, <<"G", "O", "!">>, <<"Z", "z">>>>

\* the GameData rows a file of one text-column combination leaves in the
\* store: every text column is NULL or holds a text
CorpusRows(k) ==
    {[app_id |-> 10 * k, name |-> CorpusNames[k],
      release_date |-> [type |-> "str", ymd |-> <<"2007", "10", "10">>],
      price |-> Some(100 * k), about_game |-> about, categories |-> categories,
      genres |-> genres, tags |-> tags, event_id |-> 1] :
        about \in {None, Some(<<"puzzle", " ", "platformer">>)},
        categories \in {None, Txt("single")},
        genres \in {None, Txt("Indie")},
        tags \in {None, Txt("scifi")}}

\* the store after one upload of CorpusLen rows into an empty database
InitCorpus ==
    /\ env = [API_SECRET_KEY |-> Some("key")]
    /\ started = TRUE
    /\ uploads = <<<<"corpus", "csv">>>>
    /\ request = Request(<<>>, Some("key"))
    /\ inflight = Idle
    /\ traversal = NoTraversal
    /\ events = <<EventRow(<<>>, None, "upload", None, <<"corpus", "csv">>,
                            Utf8, Comma)>>
    /\ games \in {g \in [1..CorpusLen -> UNION {CorpusRows(k) : k \in 1..CorpusLen}] :
                     \A k \in 1..CorpusLen : g[k] \in CorpusRows(k)}
    /\ resp = Response("upload_csv", 201, "none")
    /\ last = NoLocals

NextCorpus == SimilarGames

SpecCorpus == InitCorpus /\ [][NextCorpus]_vars

\* ------------------------------------------------------------- properties

\* get_similar_games ran for the request just answered
Called == last.called

\* ... and returned its dictionary (status 200)
Returned == last.called /\ last.error = "none"

\* ... and got as far as the fuzzy matcher
Matched == last.called /\ last.error \notin {"KeyError", "ValueError"}

DfNames == [i \in 1..Len(last.df) |-> last.df[i].name]

\* the score of the name the matcher returned
BestScore == Score(last.game_name, Val(last.closest))

\* C1: the similar_games list never contains the corpus entry at the matched
\* index, and the entry the ranking drops is the matched index itself.
C1_MatchedNotListed ==
    Returned =>
        /\ \A k \in 1..Len(last.game_indices) : last.game_indices[k] # last.idx
        /\ Head(sorted_reverse(enumerate(last.cosine_sim[last.idx]))).index = last.idx

\* C2: with no record in the store, a similarity query for a non-empty name
\* ends with a "no match" / empty result and never with an exception.
C2_EmptyStoreNoMatch ==
    (Called /\ Len(games) = 0) => (last.error = "none" /\ resp.status # 500)

\* C3: for a corpus of n >= 1 records, the similar_games list a call returns
\* has exactly min(10, n - 1) entries.
C3_TopNSize ==
    Returned =>
        /\ Len(last.df) = Len(games)
        /\ Len(resp.similar_games) = Min(10, Len(games) - 1)

C3_Witness ==
    Returned /\ Len(games) > 11 /\ Len(resp.similar_games) = 10

\* C4: similar_games is ordered by the similarity score to the matched game,
\* highest first, and entries of equal score are in ascending corpus order.
C4_Ordered ==
    Returned =>
        /\ Len(resp.similar_games) = Len(last.game_indices)
        /\ \A k \in 1..Len(resp.similar_games) :
              resp.similar_games[k].similarity_score
                  = last.cosine_sim[last.idx][last.game_indices[k]]
        /\ \A k, l \in 1..Len(resp.similar_games) :
              k < l =>
                 /\ ~Less(resp.similar_games[k].similarity_score,
                          resp.similar_games[l].similarity_score)
                 /\ resp.similar_games[k].similarity_score
                        = resp.similar_games[l].similarity_score
                    => last.game_indices[k] < last.game_indices[l]

C4_Witness ==
    /\ Returned
    /\ \E k, l \in 1..Len(resp.similar_games) :
          /\ k < l
          /\ resp.similar_games[k].similarity_score
                = resp.similar_games[l].similarity_score
    /\ \E k, l \in 1..Len(resp.similar_games) :
          /\ k < l
          /\ Less(resp.similar_games[l].similarity_score,
                  resp.similar_games[k].similarity_score)

\* C5: find_most_similar_game returns a candidate of the highest score, and
\* among several candidates of that score the first in the candidate list.
C5_BestFirst ==
    Matched =>
        /\ ~IsNull(last.closest)
        /\ LET best == BestScore
           IN \E i \in 1..Len(DfNames) :
                 /\ DfNames[i] = Val(last.closest)
                 /\ \A j \in 1..Len(DfNames) :
                       Score(last.game_name, DfNames[j]) <= best
                 /\ \A j \in 1..(i - 1) :
                       Score(last.game_name, DfNames[j]) < best

C5_Witness ==
    /\ Matched
    /\ BestScore > 0
    /\ LET best == BestScore
       IN \E i, j \in 1..Len(DfNames) :
             /\ i < j
             /\ DfNames[i] = Val(last.closest)
             /\ DfNames[j] # DfNames[i]
             /\ Score(last.game_name, DfNames[j]) = best

\* C6: there is no minimum score: for a non-empty candidate list the matcher
\* returns a candidate name, whatever the best score, a score of 0 included.
C6_NoThreshold ==
    Matched =>
        /\ ~IsNull(last.closest)
        /\ \E i \in 1..Len(DfNames) : DfNames[i] = Val(last.closest)

C6_Witness ==
    /\ Matched
    /\ ~IsNull(last.closest)
    /\ BestScore = 0
    /\ Len(DfNames) > 1

\* C7: closest_match is the first record of the loaded corpus whose name is
\* the name the matcher returned; a name that is in no record ends the
\* request with an exception and no response body.
C7_ClosestIsFirstNamed ==
    /\ Returned =>
          /\ last.df = load_game_data(games).df
          /\ last.idx \in 1..Len(last.df)
          /\ last.df[last.idx].name = Val(last.closest)
          /\ \A j \in 1..(last.idx - 1) : last.df[j].name # Val(last.closest)
          /\ resp.closest_match = Some(game_info(last.df, last.idx))
    /\ (Matched /\ name_index(last.df, last.closest) = {}) =>
          /\ last.error = "IndexError"
          /\ resp.status = 500
          /\ IsNull(resp.closest_match)

C7_Witness ==
    /\ Returned
    /\ \E j \in 1..Len(last.df) :
          /\ j > last.idx
          /\ last.df[j].name = Val(last.closest)
          /\ game_info(last.df, j) # game_info(last.df, last.idx)

\* C8: every diagonal entry sim(i,i) of the similarity matrix built for a
\* request over a non-empty corpus is 1.0.
C8_SelfSimilarityOne ==
    Matched => \A i \in 1..Len(last.cosine_sim) : last.cosine_sim[i][i] = One

\* C9: a record whose composed text has no retained term does not stop the
\* request in the vectorizer, and its similarity to every other record is 0.
C9_ZeroNormDefined ==
    (Called /\ \E i \in 1..Len(games) : analyze(combined_features(games[i])) = <<>>)
        => /\ last.error # "ValueError"
           /\ \A i, j \in 1..Len(last.cosine_sim) :
                 (i # j /\ analyze(last.df[i].combined_features) = <<>>)
                     => last.cosine_sim[i][j] = Zero

\* C10: with exactly one record in the store the request does not fail: it
\* returns that record as closest_match and an empty similar_games list.
C10_SingleRecord ==
    (Called /\ Len(games) = 1) =>
        /\ last.error = "none"
        /\ resp.status = 200
        /\ resp.closest_match = Some(game_info(load_game_data(games).df, 1))
        /\ resp.similar_games = <<>>

\* the record has a genres text and no other text
OnlyGenres(g) ==
    /\ ~IsNull(g.genres)
    /\ IsNull(g.about_game) /\ IsNull(g.categories) /\ IsNull(g.tags)

\* C11: the composed text of a record is about_game, categories, genres and
\* tags in that order with one blank between them, a NULL column counting as
\* the empty text; composing raises for no combination of NULL columns, and
\* a record with only genres set has a non-zero vector, similar to every
\* record of the same genres.
C11_Composed ==
    Called =>
        /\ last.error # "KeyError"
        /\ Len(last.df) = Len(games)
        /\ \A i \in 1..Len(games) :
              LET Text(o) == IF o = <<>> THEN <<>> ELSE o[1]
              IN last.df[i].combined_features
                    = Text(games[i].about_game) \o <<" ">>
                        \o Text(games[i].categories) \o <<" ">>
                        \o Text(games[i].genres) \o <<" ">>
                        \o Text(games[i].tags)
        /\ \A i \in 1..Len(games) :
              OnlyGenres(games[i]) =>
                 /\ last.error # "ValueError"
                 /\ last.cosine_sim[i][i] = One
                 /\ \A j \in 1..Len(games) :
                       ~IsNull(games[j].genres) => Less(Zero, last.cosine_sim[i][j])

C11_Witness ==
    /\ Returned
    /\ \E i, j \in 1..Len(games) :
          /\ OnlyGenres(games[i])
          /\ ~IsNull(games[j].about_game) /\ ~IsNull(games[j].categories)
          /\ ~IsNull(games[j].genres) /\ ~IsNull(games[j].tags)
          /\ Less(Zero, last.cosine_sim[i][j])
          /\ Less(last.cosine_sim[i][j], One)

\* the store with other numbers in every record: another app_id and release
\* date, and a price, or none, for the first record and for the others
NumericVariants(table) ==
    {[i \in 1..Len(table) |->
        [table[i] EXCEPT !.app_id = @ + 1,
                         !.release_date = [type |-> "str", ymd |-> Epoch],
                         !.price = IF i = 1 THEN p ELSE q]] :
        p \in {None, Some(5)}, q \in {None, Some(5)}}

\* C13: app_id, release_date and price do not reach the similarity: a store
\* that differs from the queried one in these columns only gives, for the
\* same name, the same matched index, the same ranked indices and the same
\* scores.
C13_NumericFree ==
    Called =>
        \A v \in NumericVariants(games) :
            LET r == get_similar_games(v, last.game_name)
            IN /\ r.cosine_sim = last.cosine_sim
               /\ r.closest = last.closest
               /\ r.idx = last.idx
               /\ r.game_indices = last.game_indices
               /\ r.sim_scores = last.sim_scores

C13_Witness ==
    /\ Returned
    /\ \E k \in 1..Len(last.sim_scores) : Less(Zero, last.sim_scores[k].score)
    /\ \A v \in NumericVariants(games) :
          \A i \in 1..Len(games) :
             v[i].price # games[i].price /\ v[i].app_id # games[i].app_id

\* C14: entry k of similar_games has the app_id, name, release_date and price
\* of the record at the k-th ranked index and, as similarity_score, the matrix
\* entry of the matched index and that record; closest_match has the
\* attributes of the record at the matched index.
C14_Attributes ==
    Returned =>
        LET ranked == sorted_reverse(enumerate(last.cosine_sim[last.idx]))
            Same(e, g) == /\ e.app_id = g.app_id
                          /\ e.name = g.name
                          /\ e.release_date = g.release_date
                          /\ e.price = g.price
        IN /\ ~IsNull(resp.closest_match)
           /\ Same(Val(resp.closest_match), games[last.idx])
           /\ \A k \in 1..Len(resp.similar_games) :
                 /\ Same(resp.similar_games[k], games[ranked[k + 1].index])
                 /\ resp.similar_games[k].similarity_score
                       = last.cosine_sim[last.idx][ranked[k + 1].index]

C14_Witness ==
    /\ Returned
    /\ Len(resp.similar_games) > 1
    /\ \E k \in 1..Len(resp.similar_games) :
          /\ last.game_indices[k] # k
          /\ games[last.game_indices[k]].app_id # games[k].app_id
          /\ IsNull(resp.similar_games[k].price)
    /\ \E k \in 1..Len(resp.similar_games) : ~IsNull(resp.similar_games[k].price)

\* C15: every entry of the similarity matrix, and so every similarity_score
\* of a response, is at least 0 and at most 1.
C15_ScoreBounds ==
    Matched =>
        LET docs == Eager([i \in 1..Len(last.df) |-> last.df[i].combined_features])
            floats == cosine_similarity_fl(fit_transform(docs).matrix)
        IN \A i, j \in 1..Len(last.df) :
              /\ ~Less(One, last.cosine_sim[i][j])
              /\ ~fl_less(FlOne, floats[i][j])

\* C16: a record with a missing price or app_id that is needed in the response
\* (as closest_match or as an entry of similar_games) makes the request end
\* with an error: no successful response carries such a record.
C16_MalformedSurfaced ==
    (resp.endpoint = "similar_games" /\ resp.status = 200) =>
        /\ ~IsNull(Val(resp.closest_match).price)
        /\ \A k \in 1..Len(resp.similar_games) :
              ~IsNull(resp.similar_games[k].price)

\* C17 (as stated): a GET /similar_games request without a name, or with an
\* empty one, is answered 400 and does not call get_similar_games; a request
\* with a non-empty name always calls it.
C17_NameDecides ==
    resp.endpoint = "similar_games" =>
        IF request.name = <<>>
        THEN resp.status = 400 /\ ~last.called
        ELSE last.called /\ last.game_name = request.name

\* C17 (amended): the same of every request the rate limiter lets through; a
\* request over the limit is answered 429 and calls nothing.
C17_NameDecidesUnlessLimited ==
    resp.endpoint = "similar_games" =>
        IF resp.status = 429 THEN ~last.called
        ELSE IF request.name = <<>>
        THEN resp.status = 400 /\ ~last.called /\ last = NoLocals
        ELSE last.called /\ last.game_name = request.name

\* a request without a name was answered 400
C17_Witness ==
    /\ resp.endpoint = "similar_games"
    /\ request.name = <<>>
    /\ resp.status = 400
    /\ games # <<>>

\* C18: a similarity request reads the store once.  The rows it loaded are
\* the store as it was then (the store only grows, so a prefix of it now),
\* and the matrix, the candidate names, closest_match and similar_games all
\* come from these rows, index by index, also when an upload appended records
\* between the load and the return.
C18_OneSnapshot ==
    Matched =>
        LET n == Len(last.df)
            now == load_game_data(games).df
        IN /\ n <= Len(games)
           /\ \A i \in 1..n : last.df[i] = now[i]
           /\ Len(last.cosine_sim) = n
           /\ \A i \in 1..n : Len(last.cosine_sim[i]) = n
           /\ ~IsNull(last.closest)
           /\ \E i \in 1..n : last.df[i].name = Val(last.closest)
           /\ last.error # "IndexError"
           /\ Returned =>
                 /\ last.idx \in 1..n
                 /\ last.df[last.idx].name = Val(last.closest)
                 /\ resp.closest_match = Some(game_info(last.df, last.idx))
                 /\ \A k \in 1..Len(resp.similar_games) :
                       /\ last.game_indices[k] \in 1..n
                       /\ resp.similar_games[k]
                             = game_info(last.df, last.game_indices[k])
                                 @@ [similarity_score |->
                                        last.cosine_sim[last.idx][last.game_indices[k]]]

\* a request returned its dictionary after an upload had appended records to
\* the store it had loaded
C18_Witness ==
    /\ Returned
    /\ resp.endpoint = "similar_games"
    /\ resp.status = 200
    /\ Len(last.df) < Len(games)
    /\ Len(resp.similar_games) > 0

\* C19: a similarity request reuses nothing of an earlier one.  Whatever
\* requests and uploads came before, the rows it works on are the rows of
\* the store at the request, the matrix is the matrix of their texts, the
\* matcher saw every stored name, and the ranking is drawn from all of them.
C19_FromScratch ==
    (resp.endpoint = "similar_games" /\ Matched) =>
        LET n == Len(games)
            docs == Eager([i \in 1..n |-> combined_features(games[i])])
            names == Eager([i \in 1..n |-> games[i].name])
        IN /\ Len(last.df) = n
           /\ \A i \in 1..n : /\ last.df[i].name = names[i]
                              /\ last.df[i].combined_features = docs[i]
           /\ last.cosine_sim = cosine_similarity(fit_transform(docs).matrix)
           /\ last.closest = find_most_similar_game(request.name, names)
           /\ Returned => Len(resp.similar_games) = Min(TopN, n - 1)

\* the request after an upload matched a record of that upload and ranked
\* another one of it
C19_Witness ==
    /\ Returned
    /\ resp.endpoint = "similar_games"
    /\ games[last.idx].event_id > 0
    /\ \E k \in 1..Len(resp.similar_games) :
          games[last.game_indices[k]].event_id > 0
    /\ \E i \in 1..Len(games) : games[i].event_id = 0

\* C20 (as stated): a POST to /upload_csv or /import_csv whose X-API-Key is
\* missing or is not the configured API_SECRET_KEY (none configured included)
\* is answered 401 and creates no Event row, no GameData row and no file.
C20_BadKey401 ==
    [][((UploadCSV \/ ImportCSV)
          /\ (IsNull(request'.key) \/ request'.key # env.API_SECRET_KEY)) =>
          /\ resp'.status = 401
          /\ UNCHANGED <<events, uploads, games>>]_vars

\* C20 (amended): such a request is refused, with 401 or, when the rate limit
\* of the route is used up, with 429, and creates no Event row, no GameData
\* row and no file.
C20_BadKeyRefused ==
    [][((UploadCSV \/ ImportCSV)
          /\ (IsNull(request'.key) \/ request'.key # env.API_SECRET_KEY)) =>
          /\ resp'.status \in {401, 429}
          /\ resp'.endpoint \in {"upload_csv", "import_csv"}
          /\ UNCHANGED <<events, uploads, games>>]_vars

\* with no API_SECRET_KEY configured, a request that sent a key was answered
\* 401
C20_Witness ==
    /\ IsNull(API_SECRET_KEY)
    /\ started
    /\ resp.endpoint \in {"upload_csv", "import_csv"}
    /\ ~IsNull(request.key)
    /\ resp.status = 401

\* C21: an upload or import request with the configured key that is answered
\* 400 or 500 leaves the record store as it was: no Event row and no GameData
\* row is added; rows are added only with a 201.
C21_ErrorLeavesStore ==
    [][((UploadCSV \/ ImportCSV)
          /\ ~IsNull(request'.key)
          /\ request'.key = env.API_SECRET_KEY
          /\ resp'.status \in {400, 500}) =>
          UNCHANGED <<events, games>>]_vars

\* C22: once the application has started, and after any uploads and imports,
\* the event_id of every GameData row is the id of an Event row.
C22_EventIdExists ==
    started =>
        \A i \in 1..Len(games) :
            \E e \in 1..Len(events) : events[e].id = games[i].event_id

\* C23: over an unchanged store and with fixed filters, GET /query returns
\* the cursor cursor+limit when that is less than the total and null
\* otherwise; a traversal from cursor 0 with the returned cursors delivers no
\* record twice, has delivered every matching record when the cursor is null,
\* and gets there in finitely many requests: each request delivers a record
\* or ends the traversal, so there are never more requests than records (one
\* request when nothing matches).
C23_Pagination ==
    (traversal.active /\ resp.endpoint = "query" /\ resp.status = 200) =>
        LET limit == IF IsNull(request.limit) THEN DefaultLimit ELSE Val(request.limit)
            Matches(i) == \A k \in 1..Len(traversal.filters) :
                              Condition(traversal.filters[k], games[i])
            matching == SelectSeq([i \in 1..Len(games) |-> i], Matches)
            got == traversal.delivered
        IN /\ resp.total = Len(matching)
           /\ resp.cursor = IF request.cursor + limit < resp.total
                            THEN Some(request.cursor + limit)
                            ELSE None
           /\ \A a, b \in 1..Len(got) : got[a] = got[b] => a = b
           /\ IsNull(traversal.cursor) => got = matching
           /\ traversal.requests <= Max(1, resp.total)

=============================================================================
